---------------------------- MODULE Spec2Model ----------------------------
(***************************************************************************)
(* Favicon resolution-and-cache engine of src/api/icons.rs.                *)
(*                                                                         *)
(* Strings are sequences of one-character strings, byte buffers are        *)
(* sequences of numbers.  The cache directory, the clock and the           *)
(* configuration are shared state; every request handler (a Rocket worker  *)
(* thread) has a position pc and its local variables.  A handler is cut    *)
(* into one step per filesystem call, because those are the points where   *)
(* two handlers can interleave; the network part of a download touches no  *)
(* shared state and is one step, its traffic recorded in trace.            *)
(***************************************************************************)
EXTENDS Integers, Sequences, FiniteSets, TLC

VARIABLES
    CONFIG,      \* the configuration record, fixed for the process lifetime
    now,         \* SystemTime::now(), in seconds
    dir_exists,  \* whether CONFIG.icon_cache_folder() exists
    files,       \* path -> file (exists, mtime, data) inside the cache folder
    pc,          \* worker -> position in icon()/get_icon()
    domain,      \* worker -> the <domain> parameter of the request
    buffer,      \* worker -> bytes download_icon returned
    saving,      \* worker -> what save_icon is writing: "hit" or "miss"
    result,      \* worker -> what the handler returned (bytes or a panic)
    calls,       \* worker -> outbound network calls made by this request
    fsops,       \* worker -> cache-folder operations made by this request
    seen,        \* worker -> ages of marker and hit file when the request looked
    web,         \* which worlds a download can meet: "all" or "cache"
    trace,       \* what the download step just taken did (empty otherwise)
    last,        \* the worker and the world of that download step
    input,       \* a function of the module and the arguments it is called with
    output,      \* <<>> before the call, <<value returned>> after it
    org_policies,        \* the rows of table org_policies
    users_organizations  \* the rows of table users_organizations

vars == <<CONFIG, now, dir_exists, files, pc, domain, buffer, saving, result,
          calls, fsops, seen, web, trace, last, input, output,
          org_policies, users_organizations>>

-----------------------------------------------------------------------------
(* Bounds of the model *)

\* The clock stops ticking at MaxTime.
MaxTime == 3

Workers == {"w1", "w2"}

-----------------------------------------------------------------------------
(* Strings and bytes *)

Digits == {"0", "1", "2", "3", "4", "5", "6", "7", "8", "9"}

Letters ==
    {"a", "b", "c", "d", "e", "f", "g", "h", "i", "j", "k", "l", "m", "n", "o",
     "p", "q", "r", "s", "t", "u", "v", "w", "x", "y", "z"}

\* char::is_alphanumeric is Unicode-aware: a non-ASCII letter passes too.
NonAsciiLetters == {"U+00E9"}

is_alphanumeric(c) == c \in Letters \cup Digits \cup NonAsciiLetters

\* str::len counts UTF-8 bytes.
Utf8Len(c) == IF c \in NonAsciiLetters THEN 2 ELSE 1

StrLen(s) ==
    Len(s) + Cardinality({i \in 1..Len(s) : Utf8Len(s[i]) = 2})

\* s[i..] starts with p
StartsAt(s, i, p) ==
    /\ i + Len(p) - 1 <= Len(s)
    /\ \A k \in 1..Len(p) : s[i + k - 1] = p[k]

\* str::contains for a literal needle, and Regex::is_match for a literal pattern
Contains(s, p) == \E i \in 1..(Len(s) + 1) : StartsAt(s, i, p)

ends_with(s, p) == Len(p) <= Len(s) /\ StartsAt(s, Len(s) - Len(p) + 1, p)

Repeat(n, x) == [i \in 1..n |-> x]

FallbackLen == 344

FALLBACK_ICON == Repeat(FallbackLen, 0)

ALLOWED_CHARS == <<"_", "-", ".">>

MaxDomainLen == 255

\* is_valid_domain without the domain.contains("..") test.
is_valid_domain_allows_dotdot(d) ==
    IF d = <<>> \/ StrLen(d) > MaxDomainLen
    THEN FALSE
    ELSE \A i \in 1..Len(d) :
            ~(~is_alphanumeric(d[i]) /\ ~Contains(ALLOWED_CHARS, <<d[i]>>))

is_valid_domain(d) ==
    IF d = <<>> \/ StrLen(d) > MaxDomainLen \/ Contains(d, <<".", ".">>)
    THEN FALSE
    ELSE \A i \in 1..Len(d) :
            ~(~is_alphanumeric(d[i]) /\ ~Contains(ALLOWED_CHARS, <<d[i]>>))

-----------------------------------------------------------------------------
(* Hosts, DNS and the configuration *)

SiteHost == <<"a", ".", "c", "o">>
CdnHost == <<"c", "d", "n">>
LanHost == <<"l", "a", "n">>
MixHost == <<"m", "i", "x">>
NxHost == <<"n", "x">>

Hosts == {SiteHost, CdnHost, LanHost, MixHost, NxHost}

\* The requests the boundary receives: one valid domain and invalid strings.
DomainInputs ==
    {SiteHost, <<>>, <<"a", ".", ".", "b">>, <<"a", "/", "b">>,
     Repeat(MaxDomainLen + 1, "a")}

\* (host, 0).to_socket_addrs(): Ok(addresses, each global or not) or Err.
to_socket_addrs(h) ==
    CASE h = SiteHost -> [ok |-> TRUE, global |-> <<TRUE>>]
      [] h = CdnHost -> [ok |-> TRUE, global |-> <<TRUE, TRUE>>]
      [] h = LanHost -> [ok |-> TRUE, global |-> <<FALSE>>]
      [] h = MixHost -> [ok |-> TRUE, global |-> <<TRUE, FALSE>>]
      [] OTHER -> [ok |-> FALSE, global |-> <<>>]

NoRegex == [some |-> FALSE, re |-> <<>>]
SomeRegex(p) == [some |-> TRUE, re |-> p]

PosTTLs == {0, 2}
NegTTLs == {0, 1}
Regexes == {NoRegex, SomeRegex(<<"c", "o">>), SomeRegex(<<"c", "d", "n">>)}

Configs ==
    [icon_cache_ttl : PosTTLs,
     icon_cache_negttl : NegTTLs,
     disable_icon_download : BOOLEAN,
     icon_blacklist_non_global_ips : BOOLEAN,
     icon_blacklist_regex : Regexes]

\* The part of the configuration the guard reads.
Blacklists ==
    [icon_blacklist_non_global_ips : BOOLEAN, icon_blacklist_regex : Regexes]

\* any_non_global with unwrap_or(true): a failed resolution blocks.
any_non_global_fails_closed(addrs) ==
    IF addrs.ok
    THEN \E i \in 1..Len(addrs.global) : ~addrs.global[i]
    ELSE TRUE

\* .map(|x| { for ip_port in x { if !is_global(ip) { return true } } false })
\* .unwrap_or(false)
any_non_global(addrs) ==
    IF addrs.ok
    THEN \E i \in 1..Len(addrs.global) : ~addrs.global[i]
    ELSE FALSE

\* The regex is only matched when the address check did not blacklist.
check_icon_domain_is_blacklisted(cfg, h) ==
    IF ~(cfg.icon_blacklist_non_global_ips /\ any_non_global(to_socket_addrs(h)))
    THEN /\ cfg.icon_blacklist_regex.some
         /\ Contains(h, cfg.icon_blacklist_regex.re)
    ELSE TRUE

-----------------------------------------------------------------------------
(* URLs *)

Str_https == <<"h", "t", "t", "p", "s">>
Str_http == <<"h", "t", "t", "p">>
Str_data == <<"d", "a", "t", "a">>
Str_png == <<".", "p", "n", "g">>
Str_jpg == <<".", "j", "p", "g">>
Str_jpeg == <<".", "j", "p", "e", "g">>
Str_ico == <<".", "i", "c", "o">>
Str_miss == <<".", "m", "i", "s", "s">>
Str_favicon == <<"/", "f", "a", "v", "i", "c", "o", "n", ".", "i", "c", "o">>
Str_data_image == <<"d", "a", "t", "a", ":", "i", "m", "a", "g", "e">>
Str_base64 == <<"b", "a", "s", "e", "6", "4">>

\* What the data_url crate makes of a data: URL.  comma: the URL has the
\* comma DataUrl::process requires; base64: decode_to_vec succeeds; body: the
\* decoded payload.  NoData for every other URL.
NoData == [comma |-> FALSE, base64 |-> FALSE, body |-> <<>>]

HttpUrl(scheme, host, path) ==
    [scheme |-> scheme, host |-> host, path |-> path, data |-> NoData]

DataUrl(comma, base64, body) ==
    [scheme |-> Str_data, host |-> <<>>, path |-> <<>>,
     data |-> [comma |-> comma, base64 |-> base64, body |-> body]]

\* A relative href as written in the page: no scheme, no host.
RelHref(path) == HttpUrl(<<>>, <<>>, path)

\* Url::into_string
into_string(u) ==
    IF u.scheme = Str_data
    THEN Str_data_image \o <<";">> \o Str_base64
            \o (IF u.data.comma THEN <<",">> ELSE <<>>)
    ELSE u.scheme \o <<":", "/", "/">> \o u.host \o u.path

\* Url::join: an absolute href replaces the base, a relative one keeps the
\* base's scheme and host.
join(base, href) ==
    IF href.scheme = <<>>
    THEN HttpUrl(base.scheme, base.host, href.path)
    ELSE href

host_str(u) == u.host

-----------------------------------------------------------------------------
(* PriorityRanker *)

DigitValue(c) ==
    CASE c = "0" -> 0 [] c = "1" -> 1 [] c = "2" -> 2 [] c = "3" -> 3
      [] c = "4" -> 4 [] c = "5" -> 5 [] c = "6" -> 6 [] c = "7" -> 7
      [] c = "8" -> 8 [] OTHER -> 9

U16Max == 65535

RECURSIVE DecimalValue(_)
DecimalValue(s) ==
    IF s = <<>> THEN 0
    ELSE 10 * DecimalValue(SubSeq(s, 1, Len(s) - 1)) + DigitValue(s[Len(s)])

RECURSIVE StripZeros(_)
StripZeros(s) ==
    IF s # <<>> /\ Head(s) = "0" THEN StripZeros(Tail(s)) ELSE s

\* str::parse::<u16>().unwrap_or_default() on a string of digits: leading
\* zeros are accepted, a value above u16::MAX is an error and gives 0.
u16_or_default(n) == IF n > U16Max THEN 0 ELSE n

parse_u16(s) ==
    IF Len(StripZeros(s)) > 5 THEN 0
    ELSE u16_or_default(DecimalValue(StripZeros(s)))

IsDigit(s, i) == i \in 1..Len(s) /\ s[i] \in Digits

\* last index of the run of digits (resp. non-digits) that starts at i;
\* i - 1 when the run is empty
RECURSIVE DigitRunEnd(_, _)
DigitRunEnd(s, i) == IF IsDigit(s, i) THEN DigitRunEnd(s, i + 1) ELSE i - 1

RECURSIVE NonDigitRunEnd(_, _)
NonDigitRunEnd(s, i) ==
    IF i \in 1..Len(s) /\ s[i] \notin Digits
    THEN NonDigitRunEnd(s, i + 1)
    ELSE i - 1

\* Regex (\d+)\D*(\d+), leftmost match, greedy with backtracking: the
\* captures at the first digit of s, or none.  The first group takes the whole
\* digit run when digits follow the non-digits after it; otherwise it gives
\* back its last digit to the second group.
NoCaptures == [found |-> FALSE, g1 |-> <<>>, g2 |-> <<>>]

\* the match that starts at i, where the first digit run ends at j and the
\* non-digits after it end at k
captures_from(s, i, j, k) ==
    IF IsDigit(s, k + 1)
    THEN [found |-> TRUE, g1 |-> SubSeq(s, i, j),
          g2 |-> SubSeq(s, k + 1, DigitRunEnd(s, k + 1))]
    ELSE IF j > i
    THEN [found |-> TRUE, g1 |-> SubSeq(s, i, j - 1), g2 |-> SubSeq(s, j, j)]
    ELSE NoCaptures

captures_at(s, i, j) == captures_from(s, i, j, NonDigitRunEnd(s, j + 1))

FirstDigit(s) == CHOOSE i \in 1..Len(s) : IsDigit(s, i) /\ \A y \in 1..(i - 1) : ~IsDigit(s, y)

captures(s) ==
    IF \A i \in 1..Len(s) : ~IsDigit(s, i)
    THEN NoCaptures
    ELSE captures_at(s, FirstDigit(s), DigitRunEnd(s, FirstDigit(s)))

NoSizes == [some |-> FALSE, str |-> <<>>]
SomeSizes(s) == [some |-> TRUE, str |-> s]

\* sizes.trim() only removes non-digits, which the regex skips anyway.
\* (width, height) of the captures, (0, 0) without a match
sizes_of(caps) ==
    IF caps.found THEN <<parse_u16(caps.g1), parse_u16(caps.g2)>> ELSE <<0, 0>>

parse_sizes(sizes) ==
    IF sizes.some THEN sizes_of(captures(sizes.str)) ELSE <<0, 0>>

\* priority_of that tests the 24..=128 range before 32 and 64.
priority_of_range_first(href, width, height) ==
    IF width # 0 /\ height # 0
    THEN IF width = height
         THEN IF width >= 24 /\ width <= 128 THEN 3
              ELSE IF width = 32 THEN 1
              ELSE IF width = 64 THEN 2
              ELSE IF width = 16 THEN 4
              ELSE 5
         ELSE 200
    ELSE IF ends_with(href, Str_png) THEN 10
         ELSE IF ends_with(href, Str_jpg) \/ ends_with(href, Str_jpeg) THEN 20
         ELSE 30

priority_of(href, width, height) ==
    IF width # 0 /\ height # 0
    THEN IF width = height
         THEN IF width = 32 THEN 1
              ELSE IF width = 64 THEN 2
              ELSE IF width >= 24 /\ width <= 128 THEN 3
              ELSE IF width = 16 THEN 4
              ELSE 5
         ELSE 200
    ELSE IF ends_with(href, Str_png) THEN 10
         ELSE IF ends_with(href, Str_jpg) \/ ends_with(href, Str_jpeg) THEN 20
         ELSE 30

get_icon_priority(href, sizes) ==
    priority_of(href, parse_sizes(sizes)[1], parse_sizes(sizes)[2])

Icon(priority, href) == [priority |-> priority, href |-> href]

\* Vec::sort_by_key: a stable sort, here by insertion.
RECURSIVE InsertByKey(_, _)
InsertByKey(sorted, x) ==
    IF sorted = <<>> THEN <<x>>
    ELSE IF sorted[Len(sorted)].priority <= x.priority
         THEN Append(sorted, x)
         ELSE Append(InsertByKey(SubSeq(sorted, 1, Len(sorted) - 1), x),
                     sorted[Len(sorted)])

\* sort_by_key that leaves the list in discovery order.
sort_by_key_unsorted(list) == list

RECURSIVE sort_by_key(_)
sort_by_key(list) ==
    IF list = <<>> THEN <<>>
    ELSE InsertByKey(sort_by_key(SubSeq(list, 1, Len(list) - 1)), list[Len(list)])

-----------------------------------------------------------------------------
(* The web: pages and servers, chosen anew for every download *)

IconSite == <<1, 1, 1>>
IconCdn == <<2, 2>>
IconLan == <<3>>

MinDataLen == 67

Sz(w, h) == SomeSizes(w \o <<"x">> \o h)

Link(rel, href, sizes) == [rel |-> rel, href |-> href, sizes |-> sizes]

Rel_icon == <<"i", "c", "o", "n">>
Rel_shortcut == <<"s", "h", "o", "r", "t", "c", "u", "t", " ", "i", "c", "o", "n">>
Rel_apple == <<"a", "p", "p", "l", "e", "-", "t", "o", "u", "c", "h", "-", "i", "c", "o", "n">>
Rel_stylesheet == <<"s", "t", "y", "l", "e", "s", "h", "e", "e", "t">>

Path(name, ext) == <<"/">> \o name \o ext

\* The HTML documents a site may serve, as the sequence of their <link>s.
PageEmpty == <<>>

PageSized ==
    <<Link(Rel_icon, RelHref(Path(<<"b">>, Str_png)), NoSizes),
      Link(Rel_stylesheet, RelHref(Path(<<"c">>, Str_png)), NoSizes),
      Link(Rel_icon, RelHref(Path(<<"a">>, Str_png)), Sz(<<"3", "2">>, <<"3", "2">>))>>

PageData ==
    <<Link(Rel_icon, DataUrl(TRUE, FALSE, <<>>), Sz(<<"3", "2">>, <<"3", "2">>)),
      Link(Rel_icon, DataUrl(TRUE, TRUE, Repeat(MinDataLen - 1, 7)),
           Sz(<<"6", "4">>, <<"6", "4">>)),
      Link(Rel_apple, DataUrl(TRUE, TRUE, Repeat(MinDataLen, 7)), NoSizes)>>

PageBadData ==
    <<Link(Rel_icon, DataUrl(FALSE, FALSE, <<>>), NoSizes),
      Link(Rel_icon, RelHref(Path(<<"a">>, Str_png)), NoSizes)>>

PageCross ==
    <<Link(Rel_icon, HttpUrl(Str_http, LanHost, Path(<<"a">>, Str_png)),
           Sz(<<"3", "2">>, <<"3", "2">>)),
      Link(Rel_icon, HttpUrl(Str_https, CdnHost, Path(<<"a">>, Str_jpg)),
           Sz(<<"1", "6">>, <<"1", "6">>)),
      Link(Rel_shortcut, HttpUrl(Str_http, MixHost, Path(<<"a">>, Str_ico)), NoSizes),
      Link(Rel_icon, HttpUrl(Str_https, NxHost, Path(<<"a">>, Str_jpeg)),
           Sz(<<"4", "8">>, <<"4", "8">>)),
      Link(Rel_icon, RelHref(Path(<<"a">>, Str_png)), Sz(<<"6", "4">>, <<"6", "4">>)),
      Link(Rel_icon, RelHref(Path(<<"b">>, Str_png)), SomeSizes(<<"3", "2">>))>>

Pages == {PageEmpty, PageSized, PageData, PageBadData, PageCross}

\* How the site answers the page probes and the icon requests, and how the
\* CDN answers icon requests.  The LAN and mixed hosts always serve, the
\* unresolvable host never does.
\* (The http probe is only made after the https probe failed, and the page is
\* only read after a probe succeeded.)
Worlds ==
    {w \in [probe_https : {"fail", "ok", "redirect_cdn", "redirect_lan", "readerr"},
            probe_http : {"fail", "ok"},
            page : Pages,
            site_icons : {"fail", "ok", "empty", "readerr", "redirect_lan"},
            cdn_icons : {"fail", "ok"}] :
        /\ w.probe_https # "fail" => w.probe_http = "fail"
        /\ (w.probe_https = "fail" /\ w.probe_http = "fail") => w.page = PageEmpty}

\* The worlds in which both page probes fail and the site either serves its
\* /favicon.ico or does not: one download that succeeds and one that fails.
CacheWorlds ==
    {w \in Worlds :
        /\ w.probe_https = "fail" /\ w.probe_http = "fail" /\ w.cdn_icons = "fail"
        /\ w.site_icons \in {"ok", "fail"}}

WorldsOf(which) == IF which = "cache" THEN CacheWorlds ELSE Worlds

\* The outcome of Client::get(url).send(): the hosts of the redirects the
\* client followed (CLIENT keeps reqwest's default redirect policy), whether
\* the final status passed error_for_status, the final URL, the body and
\* whether reading the body succeeds.
Response(hops, ok, final, body, readok) ==
    [hops |-> hops, ok |-> ok, final |-> final, body |-> body, readok |-> readok]

ServerAnswer(how, url, body) ==
    CASE how = "ok" -> Response(<<>>, TRUE, url, body, TRUE)
      [] how = "empty" -> Response(<<>>, TRUE, url, <<>>, TRUE)
      [] how = "readerr" -> Response(<<>>, TRUE, url, <<>>, FALSE)
      [] how = "redirect_lan" ->
            Response(<<LanHost>>, TRUE, HttpUrl(Str_http, LanHost, url.path),
                     IconLan, TRUE)
      [] how = "redirect_cdn" ->
            Response(<<CdnHost>>, TRUE, HttpUrl(Str_https, CdnHost, url.path),
                     IconCdn, TRUE)
      [] OTHER -> Response(<<>>, FALSE, url, <<>>, TRUE)

send(world, url) ==
    CASE url.host = SiteHost /\ url.path = <<>> /\ url.scheme = Str_https ->
            ServerAnswer(world.probe_https, url, <<>>)
      [] url.host = SiteHost /\ url.path = <<>> ->
            ServerAnswer(world.probe_http, url, <<>>)
      [] url.host = SiteHost -> ServerAnswer(world.site_icons, url, IconSite)
      [] url.host = CdnHost -> ServerAnswer(world.cdn_icons, url, IconCdn)
      [] url.host \in {LanHost, MixHost} -> ServerAnswer("ok", url, IconLan)
      [] OTHER -> ServerAnswer("fail", url, <<>>)

-----------------------------------------------------------------------------
(* PageFetcher, IconExtractor and the download *)

\* Entries of trace: an evaluation of the guard on a host (with a DNS lookup
\* when the non-global-IP check is on), an HTTP request the code asked for,
\* a request the client made by itself to follow a redirect, the decoding of
\* a data URI.
Ev(ev, host, url) == [ev |-> ev, host |-> host, url |-> url]

BareHost(h) == HttpUrl(<<>>, h, <<>>)

RedirectEvs(resp) ==
    [i \in 1..Len(resp.hops) |-> Ev("redirect", resp.hops[i], BareHost(resp.hops[i]))]

\* CLIENT.get(url)...send()?.error_for_status(): the response and its traffic.
sent(url, resp) ==
    [ok |-> resp.ok, resp |-> resp,
     log |-> <<Ev("request", host_str(url), url)>> \o RedirectEvs(resp)]

\* err!("Favicon rel linked to a non blacklisted domain!"): nothing is sent.
refused(url) == [ok |-> FALSE, resp |-> ServerAnswer("fail", url, <<>>), log |-> <<>>]

\* Either result, after the guard was evaluated on host.
guarded(host, url, got) ==
    [ok |-> got.ok, resp |-> got.resp,
     log |-> <<Ev("is_blocked", host, url)>> \o got.log]

\* get_page_with_cookies that guards the request with the wrong host: the
\* URL's path instead of its host.
get_page_with_cookies_wrong_host(cfg, world, url) ==
    guarded(url.path, url,
            IF check_icon_domain_is_blacklisted(cfg, url.path)
            THEN refused(url)
            ELSE sent(url, send(world, url)))

get_page_with_cookies(cfg, world, url) ==
    guarded(host_str(url), url,
            IF check_icon_domain_is_blacklisted(cfg, host_str(url))
            THEN refused(url)
            ELSE sent(url, send(world, url)))

get_page(cfg, world, url) == get_page_with_cookies(cfg, world, url)

IsWordChar(c) == is_alphanumeric(c) \/ c = "_"

\* Regex icon$|apple.*icon on the rel attribute
RelMatches(rel) ==
    \/ ends_with(rel, Rel_icon)
    \/ \E i, j \in 1..Len(rel) :
          /\ StartsAt(rel, i, <<"a", "p", "p", "l", "e">>)
          /\ j >= i + 5
          /\ StartsAt(rel, j, Rel_icon)

\* The href attribute as written: the path of a relative link, the whole
\* URL otherwise.
RawHref(href) == IF href.scheme = <<>> THEN href.path ELSE into_string(href)

\* Regex \w+\.(jpg|jpeg|png|ico)(\?.*)?$|^data:image.*base64 on the href
HrefMatches(s) ==
    \/ \E ext \in {Str_jpg, Str_jpeg, Str_png, Str_ico} :
          \E i \in 2..Len(s) :
             /\ IsWordChar(s[i - 1])
             /\ StartsAt(s, i, ext)
             /\ \/ i + Len(ext) - 1 = Len(s)
                \/ s[i + Len(ext)] = "?"
    \/ /\ StartsAt(s, 1, Str_data_image)
       /\ Contains(SubSeq(s, Len(Str_data_image) + 1, Len(s)), Str_base64)

IsFavicon(link) == RelMatches(link.rel) /\ HrefMatches(RawHref(link.href))

\* Icon::new(get_icon_priority(&full_href, sizes), full_href)
NewIcon(full_href, sizes) ==
    Icon(get_icon_priority(into_string(full_href), sizes), full_href)

FoundIcon(url, link) == NewIcon(join(url, link.href), link.sizes)

FaviconGuess == 35

\* Ok((iconlist, cookie_str)) or Err, with the traffic of the page probes.
\* The cookie string only adds a request header and is left out.
\* The icons of the <link> elements that passed the filters, in page order.
FoundIcons(url, favicons) ==
    [i \in 1..Len(favicons) |-> FoundIcon(url, favicons[i])]

\* if let Ok(content) = resp: the default favicon.ico at the final URL, then
\* the icons of the page; reading the page may fail.
\* Ok((iconlist, cookie_str)); pushed is iconlist as it was before the sort.
sorted(pushed, log) ==
    [ok |-> TRUE, log |-> log, pushed |-> pushed, iconlist |-> sort_by_key(pushed)]

icons_of_page(world, content, log) ==
    IF content.readok
    THEN sorted(<<Icon(FaviconGuess, join(content.final, RelHref(Str_favicon)))>>
                \o FoundIcons(content.final, SelectSeq(world.page, IsFavicon)),
                log)
    ELSE [ok |-> FALSE, log |-> log, pushed |-> <<>>, iconlist |-> <<>>]

\* get_page(&ssldomain).or_else(|_| get_page(&httpdomain)): the second probe
\* is only made when the first failed.
probed(world, d, first, second) ==
    IF first.ok
    THEN icons_of_page(world, first.resp, first.log)
    ELSE IF second.ok
    THEN icons_of_page(world, second.resp, first.log \o second.log)
    ELSE sorted(<<Icon(FaviconGuess, HttpUrl(Str_https, d, Str_favicon)),
                  Icon(FaviconGuess, HttpUrl(Str_http, d, Str_favicon))>>,
                first.log \o second.log)

get_icon_url(cfg, world, d) ==
    probed(world, d,
           get_page(cfg, world, HttpUrl(Str_https, d, <<>>)),
           get_page(cfg, world, HttpUrl(Str_http, d, <<>>)))

MaxCandidates == 5

take(list, n) == SubSeq(list, 1, IF Len(list) < n THEN Len(list) ELSE n)

\* The loop of download_icon over the candidates still to try.  how is
\* "ok" (the loop ended, by break or by exhaustion), "err" (copy_to failed
\* and ? returned the error) or "panic" (DataUrl::process(..).unwrap()).
Outcome(how, bytes, log) == [how |-> how, buffer |-> bytes, log |-> log]

RECURSIVE try_icons(_, _, _, _)

\* One pass of the loop, on the candidate icon with the candidates rest after
\* it; fetched is what get_page_with_cookies gives for its href.
try_icon(cfg, world, icon, rest, log, decoding, fetched) ==
    IF StartsAt(into_string(icon.href), 1, Str_data_image)
    THEN IF ~icon.href.data.comma
         THEN Outcome("panic", <<>>, decoding)
         ELSE IF icon.href.data.base64 /\ Len(icon.href.data.body) >= MinDataLen
         THEN Outcome("ok", icon.href.data.body, decoding)
         ELSE try_icons(cfg, world, rest, decoding)
    ELSE IF fetched.ok
         THEN IF fetched.resp.readok
              THEN Outcome("ok", fetched.resp.body, log \o fetched.log)
              ELSE Outcome("err", <<>>, log \o fetched.log)
         ELSE try_icons(cfg, world, rest, log \o fetched.log)

try_icons(cfg, world, icons, log) ==
    IF icons = <<>> THEN Outcome("ok", <<>>, log)
    ELSE try_icon(cfg, world, Head(icons), Tail(icons), log,
                  Append(log, Ev("decode", <<>>, Head(icons).href)),
                  get_page_with_cookies(cfg, world, Head(icons).href))

\* if buffer.is_empty() { err!("Empty response") }
non_empty(tried) ==
    IF tried.how = "ok" /\ tried.buffer = <<>>
    THEN Outcome("err", <<>>, tried.log)
    ELSE tried

\* let (iconlist, cookie_str) = get_icon_url(&domain)?, then the loop
downloaded(cfg, world, found, log) ==
    IF ~found.ok
    THEN Outcome("err", <<>>, log \o found.log)
    ELSE non_empty(try_icons(cfg, world, take(found.iconlist, MaxCandidates),
                             log \o found.log))

download_icon(cfg, world, d) ==
    IF check_icon_domain_is_blacklisted(cfg, d)
    THEN Outcome("err", <<>>, <<Ev("is_blocked", d, BareHost(d))>>)
    ELSE downloaded(cfg, world, get_icon_url(cfg, world, d),
                    <<Ev("is_blocked", d, BareHost(d))>>)

\* Outbound network calls in a trace: a DNS lookup per guard evaluation when
\* the non-global-IP check is on, and every HTTP request.
NetCalls(cfg, log) ==
    Cardinality({i \in 1..Len(log) :
        \/ log[i].ev \in {"request", "redirect"}
        \/ log[i].ev = "is_blocked" /\ cfg.icon_blacklist_non_global_ips})

ValidDomains == {d \in DomainInputs : is_valid_domain(d)}

\* download_icon reads nothing but the blacklist settings, the web and the
\* domain: its outcomes are tabulated once.
Tabulated(f) == IF f = <<>> THEN <<>> ELSE f

Downloads ==
    Tabulated([cfg \in Blacklists, world \in Worlds, d \in ValidDomains |->
                 download_icon(cfg, world, d)])

Blacklist ==
    [icon_blacklist_non_global_ips |-> CONFIG.icon_blacklist_non_global_ips,
     icon_blacklist_regex |-> CONFIG.icon_blacklist_regex]

-----------------------------------------------------------------------------
(* CacheStore: the files of the cache folder *)

\* format!("{}/{}.png", CONFIG.icon_cache_folder(), domain), inside the folder
icon_path(d) == d \o Str_png

miss_path(path) == path \o Str_miss

CachePaths ==
    UNION {{icon_path(d), miss_path(icon_path(d))} : d \in DomainInputs}

NoFile == [exists |-> FALSE, mtime |-> 0, data |-> <<>>]

File(mtime, data) == [exists |-> TRUE, mtime |-> mtime, data |-> data]

\* file_is_expired without the ttl > 0 test: a TTL of 0 expires everything.
file_is_expired_zero_ttl(path, ttl) ==
    IF ~files[path].exists \/ now < files[path].mtime
    THEN [ok |-> FALSE, expired |-> FALSE]
    ELSE [ok |-> TRUE, expired |-> ttl <= now - files[path].mtime]

\* Result<bool, Error>: an error when the file is missing or its modification
\* time lies after now (duration_since fails).
file_is_expired(path, ttl) ==
    IF ~files[path].exists \/ now < files[path].mtime
    THEN [ok |-> FALSE, expired |-> FALSE]
    ELSE [ok |-> TRUE, expired |-> ttl > 0 /\ ttl <= now - files[path].mtime]

\* icon_is_negcached with Ok(false) => false: an unexpired marker is taken
\* for a missing one.
icon_is_negcached_ignores_marker(path) ==
    LET expired == file_is_expired(miss_path(path), CONFIG.icon_cache_negttl)
    IN  IF expired.ok
        THEN IF expired.expired THEN "remove" ELSE "miss"
        ELSE "miss"

\* icon_is_negcached with Ok(true) => false and no remove_file: an expired
\* marker is ignored and left in the folder.
icon_is_negcached_keeps_expired(path) ==
    LET expired == file_is_expired(miss_path(path), CONFIG.icon_cache_negttl)
    IN  IF expired.ok
        THEN IF expired.expired THEN "miss" ELSE "fallback"
        ELSE "miss"

\* What icon_is_negcached does with the marker: "fallback" (still negatively
\* cached), "remove" (expired, drop the marker) or "miss" (no usable marker).
icon_is_negcached(path) ==
    LET expired == file_is_expired(miss_path(path), CONFIG.icon_cache_negttl)
    IN  IF expired.ok
        THEN IF expired.expired THEN "remove" ELSE "fallback"
        ELSE "miss"

\* icon_is_expired with unwrap_or(false): a hit file whose age is unknown
\* counts as fresh.
icon_is_expired_error_is_fresh(path) ==
    LET expired == file_is_expired(path, CONFIG.icon_cache_ttl)
    IN  IF expired.ok THEN expired.expired ELSE FALSE

icon_is_expired(path) ==
    LET expired == file_is_expired(path, CONFIG.icon_cache_ttl)
    IN  IF expired.ok THEN expired.expired ELSE TRUE

\* Option<Vec<u8>>
None == [some |-> FALSE, bytes |-> <<>>]
Some(bytes) == [some |-> TRUE, bytes |-> bytes]

\* What get_cached_icon returns; the removal of an expired marker leaves the
\* hit file as it is.
get_cached_icon(path) ==
    IF icon_is_negcached(path) = "fallback" THEN Some(FALLBACK_ICON)
    ELSE IF icon_is_expired(path) THEN None
    ELSE IF files[path].exists THEN Some(files[path].data)
    ELSE None

-----------------------------------------------------------------------------
(* The request handlers *)

NoResult == [kind |-> "none", bytes |-> <<>>]
Returned(bytes) == [kind |-> "bytes", bytes |-> bytes]
Panicked == [kind |-> "panic", bytes |-> <<>>]

NotChecked == -2
Missing == -1

Age(path) == IF files[path].exists THEN now - files[path].mtime ELSE Missing

NoDownload ==
    [w |-> "none",
     world |-> [probe_https |-> "none", probe_http |-> "none", page |-> <<>>,
                site_icons |-> "none", cdn_icons |-> "none"]]

NothingSeen == [miss |-> NotChecked, hit |-> NotChecked]

\* No request is being served.
Idle ==
    /\ pc = [w \in Workers |-> "idle"]
    /\ domain = [w \in Workers |-> <<>>]
    /\ buffer = [w \in Workers |-> <<>>]
    /\ saving = [w \in Workers |-> "none"]
    /\ result = [w \in Workers |-> NoResult]
    /\ calls = [w \in Workers |-> 0]
    /\ fsops = [w \in Workers |-> {}]
    /\ seen = [w \in Workers |-> NothingSeen]
    /\ trace = <<>>
    /\ last = NoDownload

\* The state of the handlers and of the cache folder when the server starts.
Start ==
    /\ now = 0
    /\ dir_exists \in BOOLEAN
    /\ files = [p \in CachePaths |-> NoFile]
    /\ Idle

\* No function is called on its own while requests are served.
NoCall == [fn |-> "none", to |-> <<>>]

\* The icon handlers open no database connection.
NoDatabase == org_policies = {} /\ users_organizations = {}

Init ==
    /\ CONFIG \in Configs
    /\ web = "all"
    /\ Start
    /\ input = NoCall
    /\ output = <<>>
    /\ NoDatabase

\* A step that is not a download leaves no trace.
Quiet ==
    /\ trace' = <<>>
    /\ last' = NoDownload
    /\ UNCHANGED <<input, output, org_policies, users_organizations>>

\* The handler ends: it returned r (or panicked).
Finish(w, r) ==
    /\ pc' = [pc EXCEPT ![w] = "done"]
    /\ result' = [result EXCEPT ![w] = r]

Goto(w, where) ==
    /\ pc' = [pc EXCEPT ![w] = where]
    /\ UNCHANGED result

Did(w, op) == fsops' = [fsops EXCEPT ![w] = @ \cup {op}]

\* get_icon without the disable_icon_download test.
CacheMiss_always_download(w) == Goto(w, "download_icon")

\* get_cached_icon returned None: get_icon goes on.
CacheMiss(w) ==
    IF CONFIG.disable_icon_download
    THEN Finish(w, Returned(FALLBACK_ICON))
    ELSE Goto(w, "download_icon")

\* icon() without the is_valid_domain test.
icon_unchecked(w, d) ==
    /\ pc[w] = "idle"
    /\ domain' = [domain EXCEPT ![w] = d]
    /\ Goto(w, "icon_is_negcached")
    /\ Quiet
    /\ UNCHANGED <<CONFIG, now, dir_exists, files, buffer, saving, calls, fsops,
                   seen, web>>

\* icon(): a request for d arrives at an idle worker.
icon(w, d) ==
    /\ pc[w] = "idle"
    /\ domain' = [domain EXCEPT ![w] = d]
    /\ IF ~is_valid_domain(d)
       THEN Finish(w, Returned(FALLBACK_ICON))
       ELSE Goto(w, "icon_is_negcached")
    /\ Quiet
    /\ UNCHANGED <<CONFIG, now, dir_exists, files, buffer, saving, calls, fsops, seen, web>>

\* get_cached_icon, first check: the miss marker.
NegCached(w) ==
    /\ pc[w] = "icon_is_negcached"
    /\ LET how == icon_is_negcached(icon_path(domain[w]))
       IN  CASE how = "fallback" -> Finish(w, Returned(FALLBACK_ICON))
             [] how = "remove" -> Goto(w, "remove_file")
             [] OTHER -> Goto(w, "icon_is_expired")
    /\ seen' = [seen EXCEPT ![w] = [miss |-> Age(miss_path(icon_path(domain[w]))),
                                    hit |-> Age(icon_path(domain[w]))]]
    /\ Did(w, "stat_miss")
    /\ Quiet
    /\ UNCHANGED <<CONFIG, now, dir_exists, files, domain, buffer, saving, calls, web>>

\* icon_is_negcached, Ok(true): remove_file(&miss_indicator); an error is
\* only logged and leaves the marker where it is.  Removing a marker that is
\* gone already changes nothing.
RemoveFile(w, failed) ==
    /\ pc[w] = "remove_file"
    /\ IF failed
       THEN UNCHANGED files
       ELSE files' = [files EXCEPT ![miss_path(icon_path(domain[w]))] = NoFile]
    /\ Goto(w, "icon_is_expired")
    /\ Did(w, IF failed THEN "remove_miss_err" ELSE "remove_miss")
    /\ Quiet
    /\ UNCHANGED <<CONFIG, now, dir_exists, domain, buffer, saving, calls, seen, web>>

\* get_cached_icon, second check: the age of the hit file.
Expired(w) ==
    /\ pc[w] = "icon_is_expired"
    /\ IF icon_is_expired(icon_path(domain[w]))
       THEN CacheMiss(w)
       ELSE Goto(w, "read_cached")
    /\ seen' = [seen EXCEPT ![w].hit = Age(icon_path(domain[w]))]
    /\ Did(w, "stat_hit")
    /\ Quiet
    /\ UNCHANGED <<CONFIG, now, dir_exists, files, domain, buffer, saving, calls, web>>

\* get_cached_icon: File::open and read_to_end of the hit file.
ReadCached(w) ==
    /\ pc[w] = "read_cached"
    /\ IF files[icon_path(domain[w])].exists
       THEN Finish(w, Returned(files[icon_path(domain[w])].data))
       ELSE CacheMiss(w)
    /\ Did(w, "read_hit")
    /\ Quiet
    /\ UNCHANGED <<CONFIG, now, dir_exists, files, domain, buffer, saving, calls, seen, web>>

\* get_icon: download_icon(&domain) against the web as it is now.
\* match download_icon(&domain): Ok saves the icon, Err writes the miss
\* marker, a panic ends the handler.
Downloaded(w, got) ==
    /\ trace' = got.log
    /\ calls' = [calls EXCEPT ![w] = NetCalls(Blacklist, got.log)]
    /\ buffer' = [buffer EXCEPT ![w] = got.buffer]
    /\ CASE got.how = "ok" ->
              /\ saving' = [saving EXCEPT ![w] = "hit"]
              /\ Goto(w, "save_icon")
         [] got.how = "err" ->
              /\ saving' = [saving EXCEPT ![w] = "miss"]
              /\ Goto(w, "save_icon")
         [] OTHER ->
              /\ UNCHANGED saving
              /\ Finish(w, Panicked)

Download(w, world) ==
    /\ pc[w] = "download_icon"
    /\ Downloaded(w, Downloads[Blacklist, world, domain[w]])
    /\ last' = [w |-> w, world |-> world]
    /\ UNCHANGED <<CONFIG, now, dir_exists, files, domain, fsops, seen, web,
                   input, output, org_policies, users_organizations>>

\* The path and the bytes of the save_icon call in progress, and what get_icon
\* returns after it.
SavePath(w) ==
    IF saving[w] = "hit" THEN icon_path(domain[w])
    ELSE miss_path(icon_path(domain[w]))

SaveBytes(w) == IF saving[w] = "hit" THEN buffer[w] ELSE <<>>

GetIconResult(w) ==
    IF saving[w] = "hit" THEN Returned(buffer[w]) ELSE Returned(FALLBACK_ICON)

\* save_icon: File::create(path).  Without the folder it fails with NotFound;
\* with it, it truncates or creates the file, or fails otherwise (denied).
SaveCreate(w, denied) ==
    /\ pc[w] = "save_icon"
    /\ IF ~dir_exists
       THEN /\ Goto(w, "create_dir_all")
            /\ UNCHANGED files
       ELSE IF denied
       THEN /\ Finish(w, GetIconResult(w))
            /\ UNCHANGED files
       ELSE /\ files' = [files EXCEPT ![SavePath(w)] = File(now, <<>>)]
            /\ Goto(w, "write_all")
    /\ Did(w, "create_" \o saving[w])
    /\ Quiet
    /\ UNCHANGED <<CONFIG, now, dir_exists, domain, buffer, saving, calls, seen, web>>

\* save_icon, Ok(f): f.write_all(icon).expect(..).  Writing no bytes cannot
\* fail; a failed write panics and leaves the file as created.
WriteAll(w, failed) ==
    /\ pc[w] = "write_all"
    /\ IF failed /\ SaveBytes(w) # <<>>
       THEN /\ Finish(w, Panicked)
            /\ UNCHANGED files
       ELSE /\ files' = [files EXCEPT ![SavePath(w)] = File(now, SaveBytes(w))]
            /\ Finish(w, GetIconResult(w))
    /\ Did(w, "write_" \o saving[w])
    /\ Quiet
    /\ UNCHANGED <<CONFIG, now, dir_exists, domain, buffer, saving, calls, seen, web>>

\* save_icon, NotFound: create_dir_all(folder).expect(..), and nothing else.
CreateDirAll(w, failed) ==
    /\ pc[w] = "create_dir_all"
    /\ IF failed /\ ~dir_exists
       THEN /\ Finish(w, Panicked)
            /\ UNCHANGED dir_exists
       ELSE /\ dir_exists' = TRUE
            /\ Finish(w, GetIconResult(w))
    /\ Did(w, "mkdir")
    /\ Quiet
    /\ UNCHANGED <<CONFIG, now, files, domain, buffer, saving, calls, seen, web>>

\* The response is sent; the worker thread is free for the next request.
Respond(w) ==
    /\ pc[w] = "done"
    /\ pc' = [pc EXCEPT ![w] = "idle"]
    /\ domain' = [domain EXCEPT ![w] = <<>>]
    /\ buffer' = [buffer EXCEPT ![w] = <<>>]
    /\ saving' = [saving EXCEPT ![w] = "none"]
    /\ result' = [result EXCEPT ![w] = NoResult]
    /\ calls' = [calls EXCEPT ![w] = 0]
    /\ fsops' = [fsops EXCEPT ![w] = {}]
    /\ seen' = [seen EXCEPT ![w] = NothingSeen]
    /\ Quiet
    /\ UNCHANGED <<CONFIG, now, dir_exists, files, web>>

\* A second passes.
Tick ==
    /\ now < MaxTime
    /\ now' = now + 1
    /\ Quiet
    /\ UNCHANGED <<CONFIG, dir_exists, files, pc, domain, buffer, saving, result,
                   calls, fsops, seen, web>>

Step(w) ==
    \/ \E d \in DomainInputs : icon(w, d)
    \/ NegCached(w)
    \/ \E failed \in BOOLEAN : RemoveFile(w, failed)
    \/ Expired(w)
    \/ ReadCached(w)
    \/ \E world \in WorldsOf(web) : Download(w, world)
    \/ \E denied \in BOOLEAN : SaveCreate(w, denied)
    \/ \E failed \in BOOLEAN : WriteAll(w, failed)
    \/ \E failed \in BOOLEAN : CreateDirAll(w, failed)
    \/ Respond(w)

Next == Tick \/ \E w \in Workers : Step(w)

\* Resolutions one at a time: a single worker thread serves the requests.
Spec == Init /\ [][Tick \/ Step("w1")]_vars

\* Concurrent resolutions: every worker thread serves requests.  The web is
\* cut down to CacheWorlds and the blacklist is off.

InitConc ==
    /\ CONFIG \in {c \in Configs : /\ ~c.icon_blacklist_non_global_ips
                                   /\ c.icon_blacklist_regex = NoRegex}
    /\ web = "cache"
    /\ Start
    /\ input = NoCall
    /\ output = <<>>
    /\ NoDatabase

SpecConc == InitConc /\ [][Next]_vars

-----------------------------------------------------------------------------
(* The functions of the module called on their own *)

\* fn is called with the arguments to
Call(fn, to) == [fn |-> fn, to |-> to]

\* <domain> parameters: ASCII and non-ASCII, at and around the length limit.
DomainArgs ==
    {SiteHost, <<>>, Repeat(MaxDomainLen, "a"), Repeat(MaxDomainLen + 1, "a"),
     <<"U+00E9">>, Repeat((MaxDomainLen + 1) \div 2, "U+00E9"),
     Repeat(MaxDomainLen \div 2, "U+00E9") \o <<"a">>,
     <<"a", ".", ".", "b">>,
     <<"a", "/", "b">>,
     <<"a", "\\", "b">>,
     <<"s", "u", "b", ".", "e", "x", "a", "m", "p", "l", "e", "-", "1", ".", "c", "o", "m">>,
     <<"a", "_", "b">>,
     <<"a", " ", "b">>,
     <<".", ".">>,
     <<".">>,
     <<"a", ":", "b">>,
     <<"a", "@", "b">>,
     <<"-">>}

\* sizes attributes of a <link>
SizesStrings ==
    {<<"3", "2", "x", "3", "2">>,
     <<"6", "4", "x", "6", "4">>,
     <<"4", "8", "x", "4", "8">>,
     <<"1", "6", "x", "1", "6">>,
     <<"1", "0", "0", "x", "1", "0", "0">>,
     <<"3", "2", "x", "6", "4">>,
     <<"2", "4", "x", "2", "4">>,
     <<"1", "2", "8", "x", "1", "2", "8">>,
     <<"1", "2", "9", "x", "1", "2", "9">>,
     <<"2", "3", "x", "2", "3">>,
     <<"0", "x", "0">>,
     <<"0", "x", "3", "2">>,
     <<"3", "2", "x", "0">>,
     <<"6", "5", "5", "3", "5", "x", "6", "5", "5", "3", "5">>,
     <<"x", "1", "2", "8", "x", "1", "2", "8">>,
     <<"3", "2">>,
     <<"5">>,
     <<>>,
     <<"x">>,
     <<"1", "x", "2", "x", "3">>,
     <<"0", "3", "2", "x", "0", "3", "2">>,
     <<" ", "1", "6", "x", "1", "6", " ">>,
     <<"6", "4", " ", "6", "4">>,
     <<"1", "6", "x", "x", "1", "6">>,
     <<"7", "x", "7">>}

SizesArgs == {NoSizes} \cup {SomeSizes(str) : str \in SizesStrings}

\* full hrefs of candidates
HrefArgs ==
    {into_string(HttpUrl(Str_https, SiteHost, Path(<<"a">>, ext))) :
        ext \in {Str_png, Str_jpg, Str_jpeg, Str_ico, Str_png \o <<"?", "x">>,
                 <<".", "g", "i", "f">>, <<>>}}
    \cup {into_string(DataUrl(TRUE, TRUE, <<>>))}

\* The files a cache folder can hold for a domain: none, or one last written
\* at any second of the clock, which may since have been set back.
Times == 0..MaxTime

HitFiles == {NoFile} \cup {File(t, data) : t \in Times, data \in {IconSite, <<>>}}

MissFiles == {NoFile} \cup {File(t, <<>>) : t \in Times}

Folder(d, hit, miss) ==
    [p \in CachePaths |->
        IF p = icon_path(d) THEN hit
        ELSE IF p = miss_path(icon_path(d)) THEN miss
        ELSE NoFile]

\* One call, of any of the functions on any of its arguments; the cache
\* functions are called at any time on any folder.
InitPure ==
    /\ CONFIG \in Configs
    /\ web = "cache"
    /\ output = <<>>
    /\ NoDatabase
    /\ \/ /\ Start
          /\ \/ \E d \in DomainArgs : input = Call("is_valid_domain", <<d>>)
             \/ \E cfg \in Blacklists, h \in Hosts :
                   input = Call("check_icon_domain_is_blacklisted", <<cfg, h>>)
             \/ \E sizes \in SizesArgs : input = Call("parse_sizes", <<sizes>>)
             \/ \E href \in HrefArgs, sizes \in SizesArgs :
                   input = Call("get_icon_priority", <<href, sizes>>)
       \/ /\ Idle
          /\ now \in Times
          /\ dir_exists = TRUE
          /\ \E hit \in HitFiles, miss \in MissFiles :
                files = Folder(SiteHost, hit, miss)
          /\ input = Call("get_cached_icon", <<icon_path(SiteHost)>>)

\* The call returns: nothing but output changes.
Return(fn) ==
    /\ input.fn = fn
    /\ output = <<>>
    /\ UNCHANGED <<CONFIG, now, dir_exists, files, pc, domain, buffer, saving,
                   result, calls, fsops, seen, web, trace, last, input,
                   org_policies, users_organizations>>

Call_is_valid_domain ==
    /\ Return("is_valid_domain")
    /\ output' = <<is_valid_domain(input.to[1])>>

Call_check_icon_domain_is_blacklisted ==
    /\ Return("check_icon_domain_is_blacklisted")
    /\ output' = <<check_icon_domain_is_blacklisted(input.to[1], input.to[2])>>

Call_parse_sizes ==
    /\ Return("parse_sizes")
    /\ output' = <<parse_sizes(input.to[1])>>

Call_get_icon_priority ==
    /\ Return("get_icon_priority")
    /\ output' = <<get_icon_priority(input.to[1], input.to[2])>>

\* get_cached_icon(path): the value returned and the marker removed on the way.
Call_get_cached_icon(failed) ==
    /\ input.fn = "get_cached_icon"
    /\ output = <<>>
    /\ output' = <<get_cached_icon(input.to[1])>>
    /\ IF icon_is_negcached(input.to[1]) = "remove" /\ ~failed
       THEN files' = [files EXCEPT ![miss_path(input.to[1])] = NoFile]
       ELSE UNCHANGED files
    /\ UNCHANGED <<CONFIG, now, dir_exists, pc, domain, buffer, saving, result,
                   calls, fsops, seen, web, trace, last, input,
                   org_policies, users_organizations>>

NextPure ==
    \/ \E failed \in BOOLEAN : Call_get_cached_icon(failed)
    \/ Call_is_valid_domain
    \/ Call_check_icon_domain_is_blacklisted
    \/ Call_parse_sizes
    \/ Call_get_icon_priority

SpecPure == InitPure /\ [][NextPure]_vars

-----------------------------------------------------------------------------
(* OrgPolicy: the rows of org_policies and the users' memberships *)

PolicyUuids == {"p1", "p2", "p3"}
OrgUuids == {"o1", "o2"}
UserUuids == {"u1", "u2"}

\* OrgPolicyType as i32; data stays the same string.
PolicyTypes == {0, 1}

\* struct OrgPolicy
OrgPolicies ==
    [uuid : PolicyUuids, org_uuid : OrgUuids, atype : PolicyTypes,
     enabled : BOOLEAN]

\* A membership row of users_organizations: one per user and organization.
Memberships == [user_uuid : UserUuids, org_uuid : OrgUuids]

\* save without the postgresql feature: replace_into deletes the rows that
\* hold the primary key or the unique (org_uuid, atype) of the new row.
save_replace_into(rows, self) ==
    {r \in rows : /\ r.uuid # self.uuid
                  /\ ~(r.org_uuid = self.org_uuid /\ r.atype = self.atype)}
        \cup {self}

\* save with the postgresql feature: delete by (org_uuid, atype), then insert
\* with on_conflict(uuid).do_update().
save_postgresql(rows, self) ==
    {r \in {q \in rows : ~(q.org_uuid = self.org_uuid /\ q.atype = self.atype)} :
        r.uuid # self.uuid} \cup {self}

delete(rows, self) == {r \in rows : r.uuid # self.uuid}

delete_all_by_organization(rows, org_uuid) ==
    {r \in rows : r.org_uuid # org_uuid}

\* find_by_user: org_policies LEFT JOIN users_organizations ON (same org_uuid
\* AND user_uuid = the user), all columns of org_policies selected.  The
\* result is a bag, row -> number of times loaded: once per joined membership
\* row, and once, with NULLs on the right, for a policy that joins none.
find_by_user(policies, memberships, user_uuid) ==
    LET joined(p) == {m \in memberships : /\ m.org_uuid = p.org_uuid
                                          /\ m.user_uuid = user_uuid}
    IN  [p \in policies |->
            IF joined(p) = {} THEN 1 ELSE Cardinality(joined(p))]

\* A change of the tables: what an earlier query returned is forgotten.
Stored(rows) ==
    /\ org_policies' = rows
    /\ input' = NoCall
    /\ output' = <<>>
    /\ UNCHANGED <<CONFIG, now, dir_exists, files, pc, domain, buffer, saving,
                   result, calls, fsops, seen, web, trace, last,
                   users_organizations>>

\* save: which of the two bodies is compiled depends on the build.
Save(postgresql, self) ==
    Stored(IF postgresql THEN save_postgresql(org_policies, self)
           ELSE save_replace_into(org_policies, self))

Delete(self) == Stored(delete(org_policies, self))

DeleteAllByOrganization(org_uuid) ==
    Stored(delete_all_by_organization(org_policies, org_uuid))

FindByUser(user_uuid) ==
    /\ input' = Call("find_by_user", <<user_uuid>>)
    /\ output' = <<find_by_user(org_policies, users_organizations, user_uuid)>>
    /\ UNCHANGED <<CONFIG, now, dir_exists, files, pc, domain, buffer, saving,
                   result, calls, fsops, seen, web, trace, last,
                   org_policies, users_organizations>>

\* No policy yet; the users are members of any of the organizations.  The
\* tables do not depend on the icon settings: one configuration stands for all.
InitDb ==
    /\ CONFIG = CHOOSE c \in Configs : TRUE
    /\ web = "cache"
    /\ Start
    /\ input = NoCall
    /\ output = <<>>
    /\ org_policies = {}
    /\ users_organizations \in SUBSET Memberships

NextDb ==
    \/ \E postgresql \in BOOLEAN, self \in OrgPolicies : Save(postgresql, self)
    \/ \E self \in org_policies : Delete(self)
    \/ \E org_uuid \in OrgUuids : DeleteAllByOrganization(org_uuid)
    \/ \E user_uuid \in UserUuids : FindByUser(user_uuid)

SpecDb == InitDb /\ [][NextDb]_vars

-----------------------------------------------------------------------------
(* Properties *)

ValidRequest(w) == pc[w] # "idle" /\ is_valid_domain(domain[w])

\* A file of the given age (Missing, NotChecked or seconds) is there and has
\* not outlived the TTL; a TTL of 0 never runs out.
Unexpired(age, ttl) == age >= 0 /\ ~(ttl > 0 /\ ttl <= age)

WriteOps == {"create_hit", "write_hit", "create_miss", "write_miss", "mkdir"}

\* C1: a resolution of a valid domain that finds the miss marker with an age
\* below the negative TTL returns the fallback image and makes no network
\* call (no DNS lookup by the guard, no HTTP request).
C1_NegativeCacheIdempotence ==
    \A w \in Workers :
        (/\ pc[w] = "done"
         /\ ValidRequest(w)
         /\ seen[w].miss >= 0
         /\ seen[w].miss < CONFIG.icon_cache_negttl)
        => /\ result[w] = Returned(FALLBACK_ICON)
           /\ calls[w] = 0

\* A request answered from a marker of age 0 that an earlier, failed
\* resolution wrote.
C1_Witness ==
    \E w \in Workers :
        /\ pc[w] = "done"
        /\ ValidRequest(w)
        /\ seen[w].miss >= 0
        /\ seen[w].miss < CONFIG.icon_cache_negttl
        /\ files[miss_path(icon_path(domain[w]))].exists
        /\ result[w] = Returned(FALLBACK_ICON)
        /\ fsops[w] = {"stat_miss"}

Requested(i) == trace[i].ev \in {"request", "redirect"}

\* C3: no HTTP request of a resolution, the ones made to follow a redirect
\* included, goes to a host for which is_blocked is true.
C3_NoRequestToBlockedHost ==
    \A i \in 1..Len(trace) :
        Requested(i) => ~check_icon_domain_is_blacklisted(Blacklist, trace[i].host)

\* C4: every page probe and every icon fetch the code asks for comes right
\* after an evaluation of is_blocked on the host of the very URL requested,
\* which returned false; after an evaluation that returned true the URL is
\* not requested.
C4_GuardBeforeEveryFetch ==
    \A i \in 1..Len(trace) :
        /\ trace[i].ev = "request"
            => /\ i > 1
               /\ trace[i - 1].ev = "is_blocked"
               /\ trace[i - 1].url = trace[i].url
               /\ trace[i - 1].host = host_str(trace[i].url)
               /\ ~check_icon_domain_is_blacklisted(Blacklist, host_str(trace[i].url))
        /\ (/\ trace[i].ev = "is_blocked"
            /\ check_icon_domain_is_blacklisted(Blacklist, trace[i].host)
            /\ i < Len(trace))
            => trace[i + 1].ev # "request"

\* A download in which a candidate on a blocked host was skipped and a later
\* candidate was requested.
C4_Witness ==
    \E i, j \in 1..Len(trace) :
        /\ 1 < i /\ i < j
        /\ trace[i].ev = "is_blocked"
        /\ trace[i].url.path # <<>>
        /\ check_icon_domain_is_blacklisted(Blacklist, trace[i].host)
        /\ trace[j].ev = "request"
        /\ trace[j].url.path # <<>>

\* C5: a request whose domain fails is_valid_domain is answered at once with
\* the fallback image: no network call, no read, write or delete in the
\* cache folder.
C5_InvalidDomainTouchesNothing ==
    \A w \in Workers :
        (pc[w] # "idle" /\ ~is_valid_domain(domain[w]))
        => /\ pc[w] = "done"
           /\ result[w] = Returned(FALLBACK_ICON)
           /\ calls[w] = 0
           /\ fsops[w] = {}
           /\ seen[w] = NothingSeen
           /\ \A p \in {icon_path(domain[w]), miss_path(icon_path(domain[w]))} :
                 files[p] = NoFile

\* A request for "a/b" answered.
C5_Witness ==
    \E w \in Workers :
        /\ pc[w] = "done"
        /\ domain[w] = <<"a", "/", "b">>
        /\ result[w] = Returned(FALLBACK_ICON)

\* C6: a resolution that got as far as save_icon returns image bytes, whatever
\* becomes of the write.
C6_WriteFailureNeverBlocks ==
    \A w \in Workers :
        (pc[w] = "done" /\ fsops[w] \cap WriteOps # {})
        => result[w].kind = "bytes"

\* The candidates of the download step just taken, and whether one of them
\* can be fetched: the guard lets it through and the server answers 2xx with
\* a readable, non-empty body, or it is a data URI that decodes to at least
\* MinDataLen bytes.
Tried ==
    take(get_icon_url(Blacklist, last.world, domain[last.w]).iconlist, MaxCandidates)

CanBeFetched(cand) ==
    IF cand.href.scheme = Str_data
    THEN /\ cand.href.data.comma
         /\ cand.href.data.base64
         /\ Len(cand.href.data.body) >= MinDataLen
    ELSE LET fetched == get_page_with_cookies(Blacklist, last.world, cand.href)
         IN  fetched.ok /\ fetched.resp.readok /\ fetched.resp.body # <<>>

CandidatesTried ==
    /\ last # NoDownload
    /\ ~check_icon_domain_is_blacklisted(Blacklist, domain[last.w])
    /\ get_icon_url(Blacklist, last.world, domain[last.w]).ok

\* C7: once the candidates are known, the download succeeds (and the
\* resolution goes on to write the hit file) exactly when one of the top
\* MaxCandidates candidates can be fetched.
C7_FailsOnlyWhenNoCandidateSucceeds ==
    CandidatesTried =>
        ((\E i \in 1..Len(Tried) : CanBeFetched(Tried[i]))
            <=> (pc[last.w] = "save_icon" /\ saving[last.w] = "hit"))

BadDataUri(url) ==
    /\ url.scheme = Str_data
    /\ ~(url.data.comma /\ url.data.base64 /\ Len(url.data.body) >= MinDataLen)

\* C8: a download that met a malformed, undecodable or too short data URI
\* goes on: it does not end the request with a panic.
C8_BadDataUriNeverFatal ==
    (/\ last # NoDownload
     /\ \E i \in 1..Len(trace) : trace[i].ev = "decode" /\ BadDataUri(trace[i].url))
    => result[last.w].kind # "panic"

\* C9: with downloads disabled, a resolution that finds neither an unexpired
\* miss marker nor a fresh hit file returns the fallback image, makes no
\* network call and writes nothing into the cache folder.
C9_DisabledDownloads ==
    \A w \in Workers :
        (/\ pc[w] = "done"
         /\ ValidRequest(w)
         /\ CONFIG.disable_icon_download
         /\ ~Unexpired(seen[w].miss, CONFIG.icon_cache_negttl)
         /\ ~Unexpired(seen[w].hit, CONFIG.icon_cache_ttl))
        => /\ result[w] = Returned(FALLBACK_ICON)
           /\ calls[w] = 0
           /\ fsops[w] \cap WriteOps = {}

\* Such a resolution, after both cache checks.
C9_Witness ==
    \E w \in Workers :
        /\ pc[w] = "done"
        /\ ValidRequest(w)
        /\ CONFIG.disable_icon_download
        /\ seen[w].miss = Missing
        /\ seen[w].hit = Missing
        /\ fsops[w] = {"stat_miss", "stat_hit"}
        /\ result[w] = Returned(FALLBACK_ICON)

\* C10: a save_icon that found the cache folder missing and created it leaves
\* the file it was asked to write, with the bytes it was given.
C10_SaveCreatesFolderAndFile ==
    \A w \in Workers :
        (pc[w] = "done" /\ "mkdir" \in fsops[w] /\ result[w].kind = "bytes")
        => /\ dir_exists
           /\ files[SavePath(w)].exists
           /\ files[SavePath(w)].data = SaveBytes(w)

\* The candidates of the download step just taken, as the loop of
\* download_icon met them: the hrefs it evaluated the guard on or decoded.
IsAttempt(e) == e.ev = "decode" \/ (e.ev = "is_blocked" /\ e.url.path # <<>>)

Attempts == SelectSeq(trace, IsAttempt)

\* The candidates in discovery order, as get_icon_url pushed them: the
\* favicon.ico guesses first, then the <link> elements in page order.
Discoveries ==
    Tabulated([cfg \in Blacklists, world \in Worlds, d \in ValidDomains |->
                 get_icon_url(cfg, world, d)])

Pushed == Discoveries[Blacklist, last.world, domain[last.w]].pushed

\* The place of the k-th discovered candidate in the order of attempts: after
\* every candidate of lower priority number, and after the earlier discovered
\* ones of the same priority.
RankIn(list, k) ==
    1 + Cardinality({j \in 1..Len(list) :
            \/ list[j].priority < list[k].priority
            \/ list[j].priority = list[k].priority /\ j < k})

\* The i-th attempt is the candidate of rank i.
InRankOrder(attempts, list) ==
    \A i \in 1..Len(attempts) : \E k \in 1..Len(list) :
        RankIn(list, k) = i /\ attempts[i].url = list[k].href

HasRanked(list, rank, priority) ==
    \E k \in 1..Len(list) : RankIn(list, k) = rank /\ list[k].priority = priority

\* C11: the i-th candidate a download attempts is the one that i - 1 others
\* precede in priority order, equal priorities taken in discovery order; at
\* most MaxCandidates are attempted and none after one that can be fetched.
C11_AttemptsInPriorityOrder ==
    CandidatesTried =>
        /\ Len(Attempts) <= MaxCandidates
        /\ InRankOrder(Attempts, Pushed)
        /\ \A i \in 1..Len(Attempts) :
              CanBeFetched([href |-> Attempts[i].url]) => i = Len(Attempts)

\* A download from the page that lists /b.png without sizes before /a.png with
\* sizes 32x32: a.png was attempted first, then b.png.
C11_Witness ==
    /\ CandidatesTried
    /\ last.world.page = PageSized
    /\ Len(Attempts) >= 2
    /\ Attempts[1].url.path = Path(<<"a">>, Str_png)
    /\ Attempts[2].url.path = Path(<<"b">>, Str_png)
    /\ HasRanked(Pushed, 1, 1)
    /\ HasRanked(Pushed, 2, 10)

\* A download that gave up after MaxCandidates candidates although the page
\* had more.
C11_WitnessFive ==
    /\ CandidatesTried
    /\ Len(Pushed) > MaxCandidates
    /\ Len(Attempts) = MaxCandidates
    /\ pc[last.w] = "save_icon" /\ saving[last.w] = "miss"

\* The download step just taken got as far as get_icon_url.
Discovered ==
    /\ last # NoDownload
    /\ ~check_icon_domain_is_blacklisted(Blacklist, domain[last.w])

ProbeOk(scheme) ==
    get_page(Blacklist, last.world, HttpUrl(scheme, domain[last.w], <<>>)).ok

IsGuess(cand) == cand.priority = FaviconGuess /\ ends_with(cand.href.path, Str_favicon)

\* What get_icon_url made of the probes: a candidate list with a favicon.ico
\* guess in it, and exactly the https and the http guess when no probe
\* succeeded.
GuessIn(found) ==
    /\ found.ok
    /\ found.iconlist # <<>>
    /\ \E k \in 1..Len(found.iconlist) : IsGuess(found.iconlist[k])
    /\ (~ProbeOk(Str_https) /\ ~ProbeOk(Str_http))
          => found.iconlist =
                <<Icon(FaviconGuess, HttpUrl(Str_https, domain[last.w], Str_favicon)),
                  Icon(FaviconGuess, HttpUrl(Str_http, domain[last.w], Str_favicon))>>

\* C12: whatever the page probes and the reading of the page give, discovery
\* yields a non-empty candidate list that holds a /favicon.ico guess of
\* priority 35, and exactly the https and http guesses, in that order, when
\* neither probe succeeds.
C12_CandidateListNeverEmpty ==
    Discovered => GuessIn(Discoveries[Blacklist, last.world, domain[last.w]])

Returned_by(fn) == input.fn = fn /\ output # <<>>

\* The host resolves and one of its addresses is not globally routable.
ResolvesToNonGlobal(h) ==
    /\ to_socket_addrs(h).ok
    /\ \E a \in {to_socket_addrs(h).global[i] : i \in 1..Len(to_socket_addrs(h).global)} :
          a = FALSE

PatternMatches(cfg, h) ==
    cfg.icon_blacklist_regex.some /\ Contains(h, cfg.icon_blacklist_regex.re)

\* C13: is_blocked(host) is true exactly when the block-non-global-IPs flag
\* is on and the host resolves to an address that is not globally routable,
\* or a blacklist pattern is configured and matches the host.
C13_GuardDecision ==
    Returned_by("check_icon_domain_is_blacklisted") =>
        (output[1] <=>
            \/ input.to[1].icon_blacklist_non_global_ips
               /\ ResolvesToNonGlobal(input.to[2])
            \/ PatternMatches(input.to[1], input.to[2]))

\* The guard let through a host that does not resolve, with the flag on, and
\* a host on a private address, with the flag off; it blocked the latter
\* with the flag on.
C13_Witness ==
    /\ Returned_by("check_icon_domain_is_blacklisted")
    /\ input.to[2] = LanHost
    /\ input.to[1].icon_blacklist_non_global_ips
    /\ ~PatternMatches(input.to[1], input.to[2])
    /\ output = <<TRUE>>

C13_WitnessFailsOpen ==
    /\ Returned_by("check_icon_domain_is_blacklisted")
    /\ input.to[2] = NxHost
    /\ input.to[1].icon_blacklist_non_global_ips
    /\ output = <<FALSE>>

C13_WitnessFlagOff ==
    /\ Returned_by("check_icon_domain_is_blacklisted")
    /\ input.to[2] = LanHost
    /\ ~input.to[1].icon_blacklist_non_global_ips
    /\ output = <<FALSE>>

AllowedInDomain == Letters \cup Digits \cup NonAsciiLetters \cup {"_", "-", "."}

PathSeparators == {"/", "\\"}

\* C14: is_valid_domain is false exactly for the empty string, a string of
\* more than 255 bytes, a string with ".." in it and a string with a
\* character that is neither alphanumeric nor one of _ - . ; so a string it
\* accepts, the only kind that icon() passes on to make a cache path of, has
\* no path separator and no ".." in it.
C14_DomainValidation ==
    Returned_by("is_valid_domain") =>
        /\ output[1] <=>
              ~(\/ input.to[1] = <<>>
                \/ StrLen(input.to[1]) > MaxDomainLen
                \/ \E i \in 1..(Len(input.to[1]) - 1) :
                      input.to[1][i] = "." /\ input.to[1][i + 1] = "."
                \/ \E i \in 1..Len(input.to[1]) :
                      input.to[1][i] \notin AllowedInDomain)
        /\ output[1] =>
              /\ \A i \in 1..Len(input.to[1]) :
                    input.to[1][i] \notin PathSeparators
              /\ ~Contains(input.to[1], <<".", ".">>)

\* sub.example-1.com was accepted.
C14_Witness ==
    /\ Returned_by("is_valid_domain")
    /\ Len(input.to[1]) = 17
    /\ Contains(input.to[1], <<"e", "x", "a", "m", "p", "l", "e", "-", "1">>)
    /\ output = <<TRUE>>

\* A string of 128 two-byte letters, 256 bytes, was rejected.
C14_WitnessBytes ==
    /\ Returned_by("is_valid_domain")
    /\ Len(input.to[1]) < MaxDomainLen
    /\ StrLen(input.to[1]) > MaxDomainLen
    /\ output = <<FALSE>>

\* The priority table: by declared size when both are nonzero, by the
\* extension of the href otherwise.
TablePriority(href, wh) ==
    CASE wh[1] = 0 \/ wh[2] = 0 ->
            (CASE ends_with(href, Str_png) -> 10
               [] ends_with(href, Str_jpg) \/ ends_with(href, Str_jpeg) -> 20
               [] OTHER -> 30)
      [] wh[1] # wh[2] -> 200
      [] wh[1] = 32 -> 1
      [] wh[1] = 64 -> 2
      [] wh[1] \in 24..128 -> 3
      [] wh[1] = 16 -> 4
      [] OTHER -> 5

\* C15: get_icon_priority gives the priority of the table for the href and
\* the (width, height) that parse_sizes returns for the sizes attribute.
C15_PriorityTable ==
    Returned_by("get_icon_priority") =>
        output[1] = TablePriority(input.to[1], parse_sizes(input.to[2]))

\* The nine rows of the table, each met by a call: this one is a .jpg href
\* with sizes 48x48, which got 3.
C15_Witness ==
    /\ Returned_by("get_icon_priority")
    /\ ends_with(input.to[1], Str_jpg)
    /\ parse_sizes(input.to[2]) = <<48, 48>>
    /\ output = <<3>>

\* An .ico href without sizes got 30.
C15_WitnessIco ==
    /\ Returned_by("get_icon_priority")
    /\ ends_with(input.to[1], Str_ico)
    /\ input.to[2] = NoSizes
    /\ output = <<30>>

\* The maximal runs of digits of a string, as (first, last) index pairs: the
\* decimal numbers it holds.
NumbersIn(str) ==
    {r \in (1..Len(str)) \X (1..Len(str)) :
        /\ r[1] <= r[2]
        /\ \A i \in r[1]..r[2] : str[i] \in Digits
        /\ ~IsDigit(str, r[1] - 1)
        /\ ~IsDigit(str, r[2] + 1)}

FirstNumber(str) == CHOOSE r \in NumbersIn(str) : \A q \in NumbersIn(str) : r[1] <= q[1]

SecondNumber(str) ==
    CHOOSE r \in NumbersIn(str) \ {FirstNumber(str)} :
        \A q \in NumbersIn(str) \ {FirstNumber(str)} : r[1] <= q[1]

\* (w, h) for a string that holds two numbers, both at most u16::MAX, apart;
\* (0, 0) for one that holds fewer than two.
TwoNumbers(str) ==
    IF Cardinality(NumbersIn(str)) >= 2
    THEN <<DecimalValue(SubSeq(str, FirstNumber(str)[1], FirstNumber(str)[2])),
           DecimalValue(SubSeq(str, SecondNumber(str)[1], SecondNumber(str)[2]))>>
    ELSE <<0, 0>>

\* C16: parse_sizes returns (w, h) when the sizes attribute holds two decimal
\* numbers separated by non-digits, and (0, 0) when it holds fewer than two
\* numbers or is absent; "32" gives (0, 0).
C16_ParseSizes ==
    Returned_by("parse_sizes") =>
        output[1] = (IF input.to[1].some THEN TwoNumbers(input.to[1].str) ELSE <<0, 0>>)

FreshHit(d) == Unexpired(Age(icon_path(d)), CONFIG.icon_cache_ttl)

UnexpiredMiss(d) == Unexpired(Age(miss_path(icon_path(d))), CONFIG.icon_cache_negttl)

\* C17: in every state, whatever the interleaving of the resolutions, no
\* domain has both a fresh hit file and an unexpired miss marker.
C17_OneRepresentation ==
    \A d \in ValidDomains : ~(FreshHit(d) /\ UnexpiredMiss(d))

\* The request of w was answered with the bytes read from the hit file.
FromPositiveCache(w) ==
    /\ pc[w] = "done"
    /\ result[w].kind = "bytes"
    /\ "read_hit" \in fsops[w]
    /\ fsops[w] \cap {"create_hit", "create_miss"} = {}
    /\ calls[w] = 0
    /\ ~CONFIG.disable_icon_download

\* The byte strings a complete save of the icon of d can have written.
CompleteIcons(d) ==
    {Downloads[Blacklist, world, d].buffer :
        world \in {x \in WorldsOf(web) : Downloads[Blacklist, x, d].how = "ok"}}

\* C18: the bytes a resolution returns from the positive cache are the
\* complete bytes some save of a downloaded icon wrote for the domain, never
\* the empty file seen between File::create and the end of write_all.
C18_NoPartialRead ==
    \A w \in Workers :
        FromPositiveCache(w) => result[w].bytes \in CompleteIcons(domain[w])

\* A worker returned the empty hit file while the other one was between
\* File::create and write_all of the same file.
C18_ReadBetweenCreateAndWrite ==
    \E w, v \in Workers :
        /\ FromPositiveCache(w)
        /\ result[w].bytes = <<>>
        /\ pc[v] = "write_all"
        /\ saving[v] = "hit"
        /\ domain[v] = domain[w]

MarkerOf(w) == miss_path(icon_path(domain[w]))

\* The resolution of w read a miss marker whose age had reached the negative
\* TTL.
SawExpiredMarker(w) ==
    /\ pc[w] # "idle"
    /\ is_valid_domain(domain[w])
    /\ CONFIG.icon_cache_negttl > 0
    /\ seen[w].miss >= CONFIG.icon_cache_negttl

Removed(w) == "remove_miss" \in fsops[w]

RemoveFailed(w) == "remove_miss_err" \in fsops[w]

\* The marker w read is gone: a marker found later is one this resolution
\* wrote anew.
MarkerGone(w) ==
    /\ pc[w] \in {"icon_is_expired", "read_cached", "download_icon", "save_icon"} =>
           ~files[MarkerOf(w)].exists
    /\ pc[w] \in {"write_all", "create_dir_all", "done"} =>
           (files[MarkerOf(w)].exists => "create_miss" \in fsops[w])

\* The resolution goes on as for a domain without marker: the hit file is
\* checked, a fresh one is read and returned, and otherwise the icon is
\* fetched unless downloads are disabled.
GenuineMiss(w) ==
    /\ pc[w] \notin {"remove_file", "icon_is_expired"} => "stat_hit" \in fsops[w]
    /\ pc[w] = "done" =>
           IF Unexpired(seen[w].hit, CONFIG.icon_cache_ttl)
           THEN /\ "read_hit" \in fsops[w]
                /\ result[w] = Returned(files[icon_path(domain[w])].data)
           ELSE IF CONFIG.disable_icon_download
           THEN result[w] = Returned(FALLBACK_ICON) /\ saving[w] = "none"
           ELSE saving[w] # "none" \/ result[w] = Panicked

\* C19: a resolution that read an expired miss marker (negative TTL > 0)
\* deletes the marker before it goes on, treats the domain as a genuine cache
\* miss, and leaves no expired marker behind when it ends.
C19_ExpiredMarkerDeleted ==
    \A w \in Workers :
        SawExpiredMarker(w) =>
            /\ pc[w] # "remove_file" => Removed(w)
            /\ MarkerGone(w)
            /\ GenuineMiss(w)

\* C19 as the code has it: remove_file is called on the expired marker before
\* the resolution goes on; when it succeeds the marker is gone and none is
\* left at the end but one the resolution wrote anew, when it fails the marker
\* stays and is ignored; either way the domain is treated as a genuine miss.
C19_ExpiredMarkerRemoveAttempted ==
    \A w \in Workers :
        SawExpiredMarker(w) =>
            /\ pc[w] # "remove_file" => Removed(w) \/ RemoveFailed(w)
            /\ Removed(w) => MarkerGone(w)
            /\ GenuineMiss(w)

\* An expired marker was removed and the icon was then fetched and saved.
C19_Witness ==
    /\ SawExpiredMarker("w1")
    /\ Removed("w1")
    /\ pc["w1"] = "done"
    /\ saving["w1"] = "hit"
    /\ ~files[MarkerOf("w1")].exists

\* An expired marker was removed and the fetch failed again: a new marker.
C19_WitnessNewMarker ==
    /\ SawExpiredMarker("w1")
    /\ Removed("w1")
    /\ pc["w1"] = "done"
    /\ saving["w1"] = "miss"
    /\ files[MarkerOf("w1")].exists

\* The removal failed: the expired marker is still there when the resolution
\* ends.
C19_WitnessRemoveFailed ==
    /\ SawExpiredMarker("w1")
    /\ RemoveFailed("w1")
    /\ pc["w1"] = "done"
    /\ saving["w1"] = "hit"
    /\ files[MarkerOf("w1")].exists

\* The age in seconds of a file, when it can be determined: the file is there
\* and was not modified after now.
HasAge(file) == file.exists /\ file.mtime <= now

\* expired = ttl > 0 AND ttl <= age_seconds
ExpiredAt(file, ttl) == ttl > 0 /\ ttl <= now - file.mtime

HitOf(path) == files[path]

MarkerAt(path) == files[miss_path(path)]

\* C20: get_cached_icon applies the expiry rule to the miss marker with the
\* negative TTL and to the hit file with the positive TTL.  A marker whose
\* age is known and which is not expired answers with the fallback image;
\* otherwise a hit file whose age is known and which is not expired is
\* returned; otherwise (file absent, age unknown or expired) the call returns
\* None, the cache miss, and it always returns.
C20_ExpiryRule ==
    Returned_by("get_cached_icon") =>
        output[1] =
            IF /\ HasAge(MarkerAt(input.to[1]))
               /\ ~ExpiredAt(MarkerAt(input.to[1]), CONFIG.icon_cache_negttl)
            THEN Some(FALLBACK_ICON)
            ELSE IF /\ HasAge(HitOf(input.to[1]))
                    /\ ~ExpiredAt(HitOf(input.to[1]), CONFIG.icon_cache_ttl)
            THEN Some(HitOf(input.to[1]).data)
            ELSE None

\* A hit file older than its TTL would allow is returned because the TTL is 0.
C20_Witness ==
    /\ Returned_by("get_cached_icon")
    /\ CONFIG.icon_cache_ttl = 0
    /\ HasAge(HitOf(input.to[1]))
    /\ now - HitOf(input.to[1]).mtime = MaxTime
    /\ output[1] = Some(IconSite)

\* A hit file of age TTL exactly is expired.
C20_WitnessAtTTL ==
    /\ Returned_by("get_cached_icon")
    /\ CONFIG.icon_cache_ttl > 0
    /\ HasAge(HitOf(input.to[1]))
    /\ now - HitOf(input.to[1]).mtime = CONFIG.icon_cache_ttl
    /\ output[1] = None

\* A hit file one second younger than the TTL is returned.
C20_WitnessBelowTTL ==
    /\ Returned_by("get_cached_icon")
    /\ CONFIG.icon_cache_ttl > 0
    /\ HasAge(HitOf(input.to[1]))
    /\ now - HitOf(input.to[1]).mtime = CONFIG.icon_cache_ttl - 1
    /\ output[1] = Some(IconSite)

\* A marker that never expires (negative TTL 0) hides a fresh hit file.
C20_WitnessMarkerNeverExpires ==
    /\ Returned_by("get_cached_icon")
    /\ CONFIG.icon_cache_negttl = 0
    /\ HasAge(MarkerAt(input.to[1]))
    /\ now - MarkerAt(input.to[1]).mtime = MaxTime
    /\ output[1] = Some(FALLBACK_ICON)

\* Files modified after now: the marker does not count, the hit is a miss.
C20_WitnessAgeUnknown ==
    /\ Returned_by("get_cached_icon")
    /\ MarkerAt(input.to[1]).exists /\ MarkerAt(input.to[1]).mtime > now
    /\ HitOf(input.to[1]).exists /\ HitOf(input.to[1]).mtime > now
    /\ output[1] = None

\* No marker and no hit file.
C20_WitnessAbsent ==
    /\ Returned_by("get_cached_icon")
    /\ ~MarkerAt(input.to[1]).exists
    /\ ~HitOf(input.to[1]).exists
    /\ output[1] = None

\* The organization of policy p has a membership row for the user.
MemberOf(user_uuid, p) ==
    \E m \in users_organizations :
        m.user_uuid = user_uuid /\ m.org_uuid = p.org_uuid

\* C21: find_by_user(user_uuid) returns exactly the stored policies whose
\* organization has a membership row for user_uuid, each of them once: no
\* policy of an organization the user does not belong to is in the result.
C21_FindByUser ==
    Returned_by("find_by_user") =>
        output[1] = [p \in {q \in org_policies : MemberOf(input.to[1], q)} |-> 1]

\* What holds of the result: every stored policy is in it once, so those of
\* the user's organizations are.
C21_EveryPolicyOnce ==
    Returned_by("find_by_user") => output[1] = [p \in org_policies |-> 1]

\* The result holds a policy of an organization the user is no member of.
C21_ForeignPolicyReturned ==
    /\ Returned_by("find_by_user")
    /\ \E p \in DOMAIN output[1] : ~MemberOf(input.to[1], p)

=============================================================================
